---------------------------- MODULE Spec2Model ----------------------------
(***************************************************************************)
(* A model of artnotizen (src/src/lib.py): the relocation of dated notes   *)
(* (organize_notes), the supervision of the markdown conversion processes  *)
(* (compile_markdown, wait_for_all), the grouping of note paths for the    *)
(* index (index_data, _Group.sort) and the writing of the index            *)
(* (build_index, download_libraries).                                      *)
(*                                                                         *)
(* Python strings are modelled as sequences of one-character strings, so   *)
(* that the regular expressions, os.path.join, os.path.splitext and        *)
(* pipes.quote are computed character by character as the library does.    *)
(***************************************************************************)
EXTENDS Integers, Sequences, FiniteSets, TLC

(***************************************************************************)
(* Bounds of the model.                                                    *)
(***************************************************************************)
MaxFiles == 3
MaxJobs == 3
MaxNotes == 3
MaxTreeFiles == 3
MaxBuildNotes == 2

(***************************************************************************)
(* Characters and strings.                                                 *)
(***************************************************************************)
Digits == <<"0", "1", "2", "3", "4", "5", "6", "7", "8", "9">>

IsDigit(c) == \E i \in 1..10 : Digits[i] = c

DigitVal(c) == (CHOOSE i \in 1..10 : Digits[i] = c) - 1

\* The characters the model's strings are made of, in ASCII order.
Alphabet ==
  <<" ", "'", "-", ".", "/", "0", "1", "2", "3", "4", "5", "6", "7", "8",
    "9", "O", "a", "b", "c", "d", "e", "h", "i", "j", "l", "m", "n", "o",
    "r", "s", "t", "x", "z">>

Ord(c) == CHOOSE i \in 1..Len(Alphabet) : Alphabet[i] = c

\* Python's < on str: lexicographic by code point, a proper prefix first.
RECURSIVE StrLess(_, _)
StrLess(a, b) ==
  IF b = <<>> THEN FALSE
  ELSE IF a = <<>> THEN TRUE
  ELSE IF Head(a) # Head(b) THEN Ord(Head(a)) < Ord(Head(b))
  ELSE StrLess(Tail(a), Tail(b))

StrLeq(a, b) == a = b \/ StrLess(a, b)

\* s.rfind(c), 1-based; 0 when c does not occur.
RFind(s, c) ==
  LET hits == {i \in 1..Len(s) : s[i] = c}
  IN IF hits = {} THEN 0 ELSE CHOOSE i \in hits : \A j \in hits : j <= i

StartsWith(s, p) == Len(p) <= Len(s) /\ SubSeq(s, 1, Len(p)) = p

From(s, i) == SubSeq(s, i, Len(s))

\* sep.join(parts)
RECURSIVE JoinWith(_, _)
JoinWith(sep, parts) ==
  IF parts = <<>> THEN <<>>
  ELSE IF Len(parts) = 1 THEN parts[1]
  ELSE parts[1] \o sep \o JoinWith(sep, Tail(parts))

\* The words of s between runs of character c (empty words dropped).
RECURSIVE SplitOn(_, _)
SplitOn(s, c) ==
  IF s = <<>> THEN <<>>
  ELSE IF Head(s) = c THEN SplitOn(Tail(s), c)
  ELSE LET stops == {i \in 1..Len(s) : s[i] = c}
           n == IF stops = {} THEN Len(s) + 1
                ELSE CHOOSE i \in stops : \A j \in stops : i <= j
       IN <<SubSeq(s, 1, n - 1)>> \o SplitOn(From(s, n), c)

\* int(s) for a string of digits.
RECURSIVE ToInt(_)
ToInt(s) ==
  IF s = <<>> THEN 0
  ELSE 10 * ToInt(SubSeq(s, 1, Len(s) - 1)) + DigitVal(s[Len(s)])

\* str(n) for n >= 0.
RECURSIVE ToStr(_)
ToStr(n) ==
  IF n < 10 THEN <<Digits[n + 1]>>
  ELSE ToStr(n \div 10) \o <<Digits[(n % 10) + 1]>>

(***************************************************************************)
(* os.path (posixpath).                                                    *)
(***************************************************************************)
\* os.path.basename(p)
Basename(p) == From(p, RFind(p, "/") + 1)

\* A join that puts a separator between any two parts.
Join2Naive(a, b) == a \o <<"/">> \o b

\* os.path.join(a, b)
Join2(a, b) ==
  IF b # <<>> /\ Head(b) = "/" THEN b
  ELSE IF a = <<>> \/ a[Len(a)] = "/" THEN a \o b
  ELSE a \o <<"/">> \o b

\* os.path.join(a, *parts)
RECURSIVE JoinAll(_, _)
JoinAll(a, parts) ==
  IF parts = <<>> THEN a ELSE JoinAll(Join2(a, Head(parts)), Tail(parts))

\* os.path.splitext(p): <<root, ext>>; leading dots of the basename are
\* not an extension.
Splitext(p) ==
  LET sep == RFind(p, "/")
      dot == RFind(p, ".")
  IN IF dot > sep /\ \E k \in (sep + 1)..(dot - 1) : p[k] # "."
     THEN <<SubSeq(p, 1, dot - 1), From(p, dot)>>
     ELSE <<p, <<>>>>

\* The components of a path, with empty and "." components dropped.
Resolve(p) == SelectSeq(SplitOn(p, "/"), LAMBDA s : s # <<".">>)


(***************************************************************************)
(* pipes.quote and shlex.split, as used by compile_markdown.               *)
(***************************************************************************)
\* pipes._safechars, restricted to the model's alphabet.
SafeChars ==
  {"-", ".", "/", "0", "1", "2", "3", "4", "5", "6", "7", "8", "9", "O",
   "a", "b", "c", "d", "e", "h", "i", "j", "l", "m", "n", "o", "r", "s",
   "t", "x", "z"}

\* file.replace("'", "'\"'\"'"); the double quote is written as "q".
RECURSIVE EscapeQuotes(_)
EscapeQuotes(s) ==
  IF s = <<>> THEN <<>>
  ELSE IF Head(s) = "'" THEN <<"'", "q", "'", "q", "'">> \o EscapeQuotes(Tail(s))
  ELSE <<Head(s)>> \o EscapeQuotes(Tail(s))

\* pipes.quote(file)
Quote(file) ==
  IF \A i \in 1..Len(file) : file[i] \in SafeChars
  THEN IF file = <<>> THEN <<"'", "'">> ELSE file
  ELSE <<"'">> \o EscapeQuotes(file) \o <<"'">>

\* shlex.split(cmd) for a command line without quotes or escapes.
ShlexSplit(cmd) == SplitOn(cmd, " ")

(***************************************************************************)
(* Inputs of compile_markdown.                                             *)
(***************************************************************************)
AMd == <<"a", ".", "m", "d">>
ABMd == <<"a", " ", "b", ".", "m", "d">>
AHtml == <<"a", ".", "h", "t", "m", "l">>
CTxt == <<"c", ".", "t", "x", "t">>
FileNames == {AMd, ABMd, AHtml, CTxt}

\* The values of markdown_ext, and markdown_cmd.
MarkdownExts == {<<".", "m", "d">>, <<".", "h", "t", "m", "l">>}
MarkdownCmd == <<"m", "d", " ", "-", "x">>

\* The exit codes a conversion process may return.
ExitCodes == {0, 1}

\* Popen.returncode of a process that has not exited (None).
NoCode == -1

VARIABLES
  files,          \* compile_markdown: the argument files
  markdownExt,    \* compile_markdown: the argument markdown_ext
  out,            \* compile_markdown: the list out
  mdTodo,         \* compile_markdown: the md_files not yet launched
  created,        \* the output files opened for writing
  procs,          \* the processes launched, in launch order
  running,        \* the dictionary running: invocation string -> process
  swept,          \* wait_for_all: keys polled in this sweep, still running
  callbackGiven,  \* wait_for_all: callback is not None
  reports,        \* lines printed to stderr: <<key, retcode>>
  calls,          \* callback invocations: <<key, process>>
  handled,        \* per process, how often wait_for_all handled its exit
  live0,          \* the processes in running when wait_for_all was called
  wpc,            \* wait_for_all: "idle", "sweep", "sleeping", "returned"
  cpc             \* compile_markdown: "idle", "launch", "waiting", "done"

cvars == <<files, markdownExt, out, mdTodo, created, procs, running, swept,
           callbackGiven, reports, calls, handled, live0, wpc, cpc>>

VARIABLES
  directory,      \* the argument directory of the run
  fs,             \* the regular files on disk, each a sequence of components
  allFiles,       \* organize_notes: all_files, as listed
  notes,          \* organize_notes: the list notes
  notesTodo,      \* organize_notes: the notes the loop has yet to visit
  noteOut,        \* organize_notes: the list out
  others,         \* organize_notes: the list others
  moves,          \* the os.renames calls of this run: <<source, destination>>
  run,            \* which run over the directory this is
  firstOut,       \* the notes the first run returned
  firstMoves,     \* the os.renames calls of the first run
  opc             \* organize_notes: "idle", "start", "loop", "done", "error"

ovars == <<fs, allFiles, notes, notesTodo, noteOut, others, moves, run, firstOut,
           firstMoves, opc>>

VARIABLES
  paths,          \* index_data: the argument notes
  depth,          \* index_data: the argument depth
  pathsTodo,      \* index_data: the notes the loop has yet to visit
  groups,         \* index_data: the dictionary groups
  tree,           \* index_data: the OrderedDict returned
  ipc             \* index_data: "idle", "loop", "done", "error"

ivars == <<paths, depth, pathsTodo, groups, tree, ipc>>

VARIABLES
  templateDir,    \* build_index: whether template_path exists
  loader,         \* build_index: the loader of env
  template,       \* the template index.html of that loader: "missing",
                  \* "broken" (rendering it raises) or "good"
  indexBefore,    \* the content of directory/index.html before the call
  indexFile,      \* the content of directory/index.html
  libDir,         \* whether directory/lib exists
  libFiles,       \* the library files present in directory/lib
  libTodo,        \* download_libraries: the urls yet to visit
  libraries,      \* download_libraries: the list libraries
  raised,         \* the exception that ended build_index, or "none"
  bpc             \* build_index: the position of the call

bvars == <<templateDir, loader, template, indexBefore, indexFile, libDir,
           libFiles, libTodo, libraries, raised, bpc>>

vars == <<cvars, directory, ovars, ivars, bvars>>

(***************************************************************************)
(* compile_markdown and wait_for_all.                                      *)
(***************************************************************************)
\* A selection that takes every file for a markdown file.
MdFilesAll(list) == list

\* Line 129: the files whose extension is markdown_ext, in order.
MdFiles(list) == SelectSeq(list, LAMBDA f : Splitext(f)[2] = markdownExt)

\* Line 134: the name of the compiled file.
HtmlName(mkd) == Splitext(mkd)[1] \o <<".", "h", "t", "m", "l">>

\* Lines 136-137: the dictionary key of a job.
Invocation(mkd) ==
  JoinWith(<<" ">>, ShlexSplit(MarkdownCmd) \o <<Quote(mkd)>>)

\* list.index(x): the first position of x.
Index(list, x) == CHOOSE i \in 1..Len(list) : list[i] = x /\ \A j \in 1..(i - 1) : list[j] # x

\* running[key] = proc
DictPut(d, key, val) == [k \in DOMAIN d \cup {key} |-> IF k = key THEN val ELSE d[k]]

\* del running[key]
DictDel(d, key) == [k \in DOMAIN d \ {key} |-> d[k]]

EmptyDict == [k \in {} |-> 0]

\* Popen(...): a new running process.
NewProc(key, src) == [key |-> key, src |-> src, state |-> "running", retcode |-> NoCode, polled |-> FALSE]

\* The parts of the program a specification does not run stay as they are.
OrganizeIdle ==
  /\ fs = {} /\ allFiles = <<>> /\ notes = <<>> /\ notesTodo = <<>> /\ noteOut = <<>>
  /\ others = <<>> /\ moves = <<>> /\ run = 0 /\ firstOut = <<>>
  /\ firstMoves = <<>> /\ opc = "idle"

IndexIdle ==
  /\ paths = {} /\ depth = "none" /\ pathsTodo = {} /\ groups = <<>>
  /\ tree = <<>> /\ ipc = "idle"

BuildIdle ==
  /\ templateDir = FALSE /\ loader = "none" /\ template = "good"
  /\ indexBefore = "absent" /\ indexFile = "absent"
  /\ libDir = FALSE /\ libFiles = {} /\ libTodo = <<>> /\ libraries = <<>>
  /\ raised = "none" /\ bpc = "idle"

WaitIdle ==
  /\ swept = {} /\ callbackGiven = FALSE /\ reports = <<>> /\ calls = <<>>
  /\ handled = <<>> /\ live0 = {} /\ wpc = "idle"

CompileInit ==
  /\ files \in UNION {[1..n -> FileNames] : n \in 0..MaxFiles}
  /\ markdownExt \in MarkdownExts
  /\ out = files
  /\ mdTodo = MdFiles(files)
  /\ created = {}
  /\ procs = <<>>
  /\ running = EmptyDict
  /\ WaitIdle
  /\ cpc = "launch"
  /\ directory = <<>> /\ OrganizeIdle /\ IndexIdle /\ BuildIdle

\* Lines 133-138: one iteration of the launch loop.
Launch ==
  /\ cpc = "launch" /\ mdTodo # <<>>
  /\ LET mkd == Head(mdTodo)
         html_filename == HtmlName(mkd)
         key == Invocation(mkd)
     IN /\ created' = created \cup {html_filename}
        /\ procs' = Append(procs, NewProc(key, mkd))
        /\ running' = DictPut(running, key, Len(procs) + 1)
        /\ out' = [out EXCEPT ![Index(out, mkd)] = html_filename]
        /\ mdTodo' = Tail(mdTodo)
  /\ UNCHANGED <<files, markdownExt, swept, callbackGiven, reports, calls, handled, live0, wpc, cpc>>
  /\ UNCHANGED <<directory, ovars, ivars, bvars>>

\* Line 140: the call wait_for_all(running, delay), with no callback.
CallWait ==
  /\ cpc = "launch" /\ mdTodo = <<>>
  /\ cpc' = "waiting"
  /\ wpc' = "sweep"
  /\ swept' = {}
  /\ callbackGiven' = FALSE
  /\ handled' = [p \in 1..Len(procs) |-> 0]
  /\ live0' = {running[k] : k \in DOMAIN running}
  /\ UNCHANGED <<files, markdownExt, out, mdTodo, created, procs, running, reports, calls>>
  /\ UNCHANGED <<directory, ovars, ivars, bvars>>

\* A launched process exits, with some exit code.
ProcExit ==
  /\ \E p \in 1..Len(procs), code \in ExitCodes :
       /\ procs[p].state = "running"
       /\ procs' = [procs EXCEPT ![p].state = "exited", ![p].retcode = code]
  /\ UNCHANGED <<files, markdownExt, out, mdTodo, created, running, swept, callbackGiven,
                 reports, calls, handled, live0, wpc, cpc>>
  /\ UNCHANGED <<directory, ovars, ivars, bvars>>

\* Lines 102-104: proc.poll() returns None; the sweep goes on.
PollRunning ==
  /\ wpc = "sweep"
  /\ \E key \in DOMAIN running \ swept :
       /\ procs[running[key]].state = "running"
       /\ swept' = swept \cup {key}
  /\ UNCHANGED <<files, markdownExt, out, mdTodo, created, procs, running, callbackGiven,
                 reports, calls, handled, live0, wpc, cpc>>
  /\ UNCHANGED <<directory, ovars, ivars, bvars>>

\* Lines 104-111: proc.poll() returns an exit code; the job is handled,
\* deleted, and the sweep restarts.
PollExited ==
  /\ wpc = "sweep"
  /\ \E key \in DOMAIN running \ swept :
       LET p == running[key]
           retcode == procs[p].retcode
       IN /\ procs[p].state = "exited"
          /\ procs' = [procs EXCEPT ![p].polled = TRUE]
          /\ reports' = IF retcode # 0 THEN Append(reports, <<key, retcode>>) ELSE reports
          /\ calls' = IF retcode = 0 /\ callbackGiven THEN Append(calls, <<key, p>>) ELSE calls
          /\ handled' = [handled EXCEPT ![p] = @ + 1]
          /\ running' = DictDel(running, key)
          /\ swept' = {}
  /\ UNCHANGED <<files, markdownExt, out, mdTodo, created, callbackGiven, live0, wpc, cpc>>
  /\ UNCHANGED <<directory, ovars, ivars, bvars>>

\* A sweep taken to be over as soon as one key was polled.
SweepOverEarly == swept # {}

\* The sweep is over without a break: every key was polled.
SweepOver == swept = DOMAIN running

\* Lines 112-113: the for loop ends without a break; time.sleep(delay).
Sleep ==
  /\ wpc = "sweep" /\ DOMAIN running # {}
  /\ SweepOver
  /\ wpc' = "sleeping"
  /\ UNCHANGED <<files, markdownExt, out, mdTodo, created, procs, running, swept, callbackGiven,
                 reports, calls, handled, live0, cpc>>
  /\ UNCHANGED <<directory, ovars, ivars, bvars>>

\* Line 114: continue; the while loop starts the next sweep.
Wake ==
  /\ wpc = "sleeping"
  /\ wpc' = "sweep"
  /\ swept' = {}
  /\ UNCHANGED <<files, markdownExt, out, mdTodo, created, procs, running, callbackGiven,
                 reports, calls, handled, live0, cpc>>
  /\ UNCHANGED <<directory, ovars, ivars, bvars>>

\* Line 101: running is empty; wait_for_all returns.
WaitReturn ==
  /\ wpc = "sweep" /\ DOMAIN running = {}
  /\ wpc' = "returned"
  /\ UNCHANGED <<files, markdownExt, out, mdTodo, created, procs, running, swept, callbackGiven,
                 reports, calls, handled, live0, cpc>>
  /\ UNCHANGED <<directory, ovars, ivars, bvars>>

\* Line 141: return out.
CompileReturn ==
  /\ cpc = "waiting" /\ wpc = "returned"
  /\ cpc' = "done"
  /\ UNCHANGED <<files, markdownExt, out, mdTodo, created, procs, running, swept, callbackGiven,
                 reports, calls, handled, live0, wpc>>
  /\ UNCHANGED <<directory, ovars, ivars, bvars>>

\* wait_for_all called on its own: any dictionary of processes, with or
\* without a callback.
WaitInit ==
  /\ files = <<>> /\ markdownExt = <<>> /\ out = <<>> /\ mdTodo = <<>> /\ created = {}
  /\ \E jobs \in UNION {[1..n -> FileNames] : n \in 0..MaxJobs} :
       /\ \A i, j \in 1..Len(jobs) : i # j => jobs[i] # jobs[j]
       /\ procs = [i \in 1..Len(jobs) |-> NewProc(Invocation(jobs[i]), jobs[i])]
       /\ running = [k \in {Invocation(jobs[i]) : i \in 1..Len(jobs)} |->
                       CHOOSE i \in 1..Len(jobs) : Invocation(jobs[i]) = k]
       /\ handled = [p \in 1..Len(jobs) |-> 0]
       /\ live0 = 1..Len(jobs)
  /\ callbackGiven \in BOOLEAN
  /\ swept = {} /\ reports = <<>> /\ calls = <<>>
  /\ wpc = "sweep"
  /\ cpc = "idle"
  /\ directory = <<>> /\ OrganizeIdle /\ IndexIdle /\ BuildIdle

WaitLoop == PollRunning \/ PollExited \/ Sleep \/ Wake \/ WaitReturn

CompileNext ==
  \/ Launch
  \/ CallWait
  \/ ProcExit
  \/ PollRunning
  \/ PollExited
  \/ Sleep
  \/ Wake
  \/ WaitReturn
  \/ CompileReturn

\* compile_markdown on every list of at most MaxFiles files.
CompileSpec == CompileInit /\ [][CompileNext]_vars

WaitNext == ProcExit \/ PollRunning \/ PollExited \/ Sleep \/ Wake \/ WaitReturn

\* wait_for_all on every dictionary of at most MaxJobs processes.  The
\* polling thread keeps running, and every process eventually exits.
FairWaitSpec ==
  WaitInit /\ [][WaitNext]_vars /\ WF_vars(WaitLoop) /\ WF_vars(ProcExit)

(***************************************************************************)
(* Claims about compile_markdown and wait_for_all.                         *)
(***************************************************************************)
Matches(f) == Splitext(f)[2] = markdownExt

\* The process launched for the matching entry at index i: the k-th
\* process, where files[i] is the k-th matching entry.
JobOf(i) == Cardinality({j \in 1..i : Matches(files[j])})

Count(seq, x) == Cardinality({i \in 1..Len(seq) : seq[i] = x})

\* C1: when compile_markdown has returned, a matching file whose job exited
\* with a non-zero code has its original name at its index of the result,
\* and one whose job exited with code 0 has the output name there.
C1_FailedKeepsName ==
  cpc = "done" =>
    \A i \in 1..Len(files) :
      (Matches(files[i]) /\ procs[JobOf(i)].state = "exited") =>
        IF procs[JobOf(i)].retcode # 0
        THEN out[i] = files[i]
        ELSE out[i] = Splitext(files[i])[1] \o <<".", "h", "t", "m", "l">>

\* What wait_for_all has done so far is a draining of each job at most
\* once: handled only after its exit, reported exactly when its exit code
\* is not 0, passed to the callback exactly when the code is 0 and a
\* callback is given, and out of the live set exactly when handled.
DrainedOnce ==
  /\ \A p \in live0 :
       LET inLive == \E k \in DOMAIN running : running[k] = p
           rep == Count(reports, <<procs[p].key, procs[p].retcode>>)
           cb == Count(calls, <<procs[p].key, p>>)
       IN /\ handled[p] <= 1
          /\ handled[p] = 1 => procs[p].state = "exited"
          /\ inLive <=> handled[p] = 0
          /\ rep = (IF handled[p] = 1 /\ procs[p].retcode # 0 THEN 1 ELSE 0)
          /\ cb = (IF handled[p] = 1 /\ procs[p].retcode = 0 /\ callbackGiven
                   THEN 1 ELSE 0)
  /\ Len(reports) + Len(calls) <= Cardinality(live0)
  /\ wpc = "returned" => \A p \in live0 : handled[p] = 1

\* The loop is asleep only after a sweep that polled every live job and
\* found each of them still running.
SleepsAfterFullSweep ==
  wpc = "sleeping" =>
    /\ DOMAIN running # {}
    /\ \A k \in DOMAIN running : k \in swept /\ handled[running[k]] = 0

\* C2: if every process eventually exits, wait_for_all returns with the
\* live set empty, having drained every job exactly once, and it sleeps
\* only after a full sweep that found no exited job.
C2_DrainsEveryJobOnce ==
  /\ [](DrainedOnce /\ SleepsAfterFullSweep)
  /\ <>(wpc = "returned" /\ DOMAIN running = {})

\* wait_for_all has returned from two or more jobs, one failed and one
\* handed to the callback.
C2_Witness ==
  /\ wpc = "returned" /\ Cardinality(live0) >= 2
  /\ reports # <<>> /\ calls # <<>>

\* C3: when compile_markdown returns, every process it launched has exited
\* and been polled, and every launched job was in the live set.
C3_AllSupervised ==
  cpc = "done" =>
    /\ \A p \in 1..Len(procs) : procs[p].state = "exited" /\ procs[p].polled
    /\ Cardinality(live0) = Len(procs)

\* C9: the result has the length of the input, keeps every non-matching
\* entry at its position, and holds at the position of every matching
\* entry either that entry or its name with the output extension.
C9_Positional ==
  /\ Len(out) = Len(files)
  /\ \A i \in 1..Len(files) :
       IF Matches(files[i])
       THEN out[i] \in {files[i], Splitext(files[i])[1] \o <<".", "h", "t", "m", "l">>}
       ELSE out[i] = files[i]

\* compile_markdown has returned a list with a substituted entry behind an
\* untouched one, the jobs having completed in the reverse launch order.
C9_Witness ==
  /\ cpc = "done" /\ Len(files) = 3
  /\ out[1] = files[1] /\ ~Matches(files[1])
  /\ out[2] # files[2] /\ out[3] # files[3]
  /\ Len(reports) = 1 /\ reports[1][1] = procs[2].key

(***************************************************************************)
(* listfiles and organize_notes.                                           *)
(***************************************************************************)
\* The working directory of the process, as components.
Cwd == <<<<"h">>>>

\* Lines 25-36: is_hidden(path), for a path without ".." components.
IsHidden(path) ==
  LET abs == Cwd \o Resolve(path)
  IN abs[Len(abs)][1] = "."

\* Lines 38-57: whether listfiles(top) lists the file on disk with
\* components f: it lies below top, no directory from top down to it is
\* hidden, and it is not hidden itself.
Listed(top, f) ==
  LET t == Resolve(top)
  IN /\ Len(f) > Len(t) /\ SubSeq(f, 1, Len(t)) = t
     /\ \A k \in Len(t)..(Len(f) - 1) :
          ~IsHidden(JoinAll(top, SubSeq(f, Len(t) + 1, k)))
     /\ ~IsHidden(f[Len(f)])

\* Line 56: the name os.walk gives the file: os.path.join(root, f), root
\* being top joined with each directory on the way down.
WalkName(top, f) == JoinAll(top, SubSeq(f, Len(Resolve(top)) + 1, Len(f)))

\* The names listfiles(top) returns.
ListFiles(top) == {WalkName(top, f) : f \in {g \in fs : Listed(top, g)}}

\* The lists that hold exactly the elements of S, each once.
Orders(S) ==
  {q \in [1..Cardinality(S) -> S] : \A i, j \in 1..Cardinality(S) : i # j => q[i] # q[j]}

\* Line 18: _DATE_REGEXP.match(name) is not None.
DateMatch(name) == Len(name) >= 4 /\ \A i \in 1..4 : IsDigit(name[i])

TwoDigitsAt(s, i) == Len(s) >= i + 1 /\ IsDigit(s[i]) /\ IsDigit(s[i + 1])

\* Lines 18, 77: _DATE_REGEXP.match(name).groups(""): <<year, month, day>>.
DateGroups(name) ==
  LET month == IF TwoDigitsAt(name, 5) THEN SubSeq(name, 5, 6) ELSE <<>>
      day == IF month # <<>> /\ TwoDigitsAt(name, 7) THEN SubSeq(name, 7, 8) ELSE <<>>
  IN <<SubSeq(name, 1, 4), month, day>>

IndexHtml == <<"i", "n", "d", "e", "x", ".", "h", "t", "m", "l">>
LibSlash == <<"l", "i", "b", "/">>

\* Line 17: _GENFILES_REGEXP.match(f) is not None.  re.match anchors the
\* pattern at the start of f.
GenfilesMatch(f) == f = IndexHtml \/ StartsWith(f, LibSlash)

\* Lines 77-79: the destination of a note.
NoteDst(dir, note) ==
  LET g == DateGroups(Basename(note))
  IN Join2(JoinAll(dir, <<g[1], g[2], g[3]>>), Basename(note))

\* Line 82: whether os.renames(old, new) raises: old is gone, a directory
\* on the way to new is a regular file, or new is a directory.
RenamesFails(old, new) ==
  LET o == Resolve(old)
      n == Resolve(new)
  IN \/ o \notin fs
     \/ \E k \in 1..(Len(n) - 1) : SubSeq(n, 1, k) \in fs
     \/ \E g \in fs : Len(g) > Len(n) /\ SubSeq(g, 1, Len(n)) = n

\* The directories organize_notes is run on.
Directories == {<<"d">>, <<".">>}

\* The files a directory may hold before the first run, below the
\* directory.
Note1 == <<"2", "0", "2", "3", "0", "6", "1", "5", "a", ".", "m", "d">>
Note2 == <<"2", "0", "2", "3", "x">>
Note3 == <<"2", "0", "2", "3", "0", "6", "b">>
Note4 == <<"2", "0", "2", "3", "j", ".", "j", "s">>
TreeFiles ==
  { <<Note1>>,
    <<<<"2", "0", "2", "3">>, <<"0", "6">>, <<"1", "5">>, Note1>>,
    <<<<"n">>, Note1>>,
    <<Note2>>,
    <<<<"n">>, Note3>>,
    <<<<".", "s">>, Note3>>,
    <<<<"2", "0", "2", "3">>>>,
    <<IndexHtml>>,
    <<<<"l", "i", "b">>, Note4>>,
    <<<<"r", ".", "t", "x", "t">>>> }

OrganizeInit ==
  /\ directory \in Directories
  /\ \E S \in SUBSET TreeFiles :
       /\ Cardinality(S) <= MaxTreeFiles
       /\ fs = {Resolve(directory) \o f : f \in S}
  /\ allFiles = <<>> /\ notes = <<>> /\ notesTodo = <<>> /\ noteOut = <<>>
  /\ others = <<>> /\ moves = <<>> /\ firstOut = <<>> /\ firstMoves = <<>>
  /\ run = 1
  /\ opc = "start"
  /\ files = <<>> /\ markdownExt = <<>> /\ out = <<>> /\ mdTodo = <<>> /\ created = {}
  /\ procs = <<>> /\ running = EmptyDict /\ WaitIdle /\ cpc = "idle"
  /\ IndexIdle /\ BuildIdle

\* Lines 70-75: the listing, in the order os.walk happens to give, and the
\* lists notes and others.
ListNotes ==
  /\ opc = "start"
  /\ \E all_files \in Orders(ListFiles(directory)) :
       LET ns == SelectSeq(all_files, LAMBDA f : DateMatch(Basename(f)))
           os == SelectSeq(all_files,
                           LAMBDA f : (\A i \in 1..Len(ns) : ns[i] # f) /\ ~GenfilesMatch(f))
       IN /\ allFiles' = all_files
          /\ notes' = ns
          /\ notesTodo' = ns
          /\ others' = [i \in 1..Len(os) |-> Join2(directory, os[i])]
  /\ noteOut' = <<>>
  /\ moves' = <<>>
  /\ opc' = "loop"
  /\ UNCHANGED <<directory, fs, run, firstOut, firstMoves>>
  /\ UNCHANGED <<cvars, ivars, bvars>>

\* Lines 76-83: one iteration of the loop, the move succeeding.
VisitNote ==
  /\ opc = "loop" /\ notesTodo # <<>>
  /\ LET note == Head(notesTodo)
         dst == NoteDst(directory, note)
     IN /\ note # dst => ~RenamesFails(note, dst)
        /\ fs' = IF note # dst THEN (fs \ {Resolve(note)}) \cup {Resolve(dst)} ELSE fs
        /\ moves' = IF note # dst THEN Append(moves, <<note, dst>>) ELSE moves
        /\ noteOut' = Append(noteOut, dst)
  /\ notesTodo' = Tail(notesTodo)
  /\ UNCHANGED <<directory, allFiles, notes, others, run, firstOut, firstMoves, opc>>
  /\ UNCHANGED <<cvars, ivars, bvars>>

\* Line 82: os.renames raises, and the exception ends the run.
RenamesRaises ==
  /\ opc = "loop" /\ notesTodo # <<>>
  /\ LET note == Head(notesTodo)
         dst == NoteDst(directory, note)
     IN note # dst /\ RenamesFails(note, dst)
  /\ opc' = "error"
  /\ UNCHANGED <<directory, fs, allFiles, notes, notesTodo, noteOut, others, moves,
                 run, firstOut, firstMoves>>
  /\ UNCHANGED <<cvars, ivars, bvars>>

\* Line 84: return out, others.
OrganizeReturn ==
  /\ opc = "loop" /\ notesTodo = <<>>
  /\ opc' = "done"
  /\ UNCHANGED <<directory, fs, allFiles, notes, notesTodo, noteOut, others, moves,
                 run, firstOut, firstMoves>>
  /\ UNCHANGED <<cvars, ivars, bvars>>

\* organize_notes is called again on the same directory.
RunAgain ==
  /\ opc = "done" /\ run = 1
  /\ run' = 2
  /\ firstOut' = noteOut
  /\ firstMoves' = moves
  /\ opc' = "start"
  /\ UNCHANGED <<directory, fs, allFiles, notes, notesTodo, noteOut, others, moves>>
  /\ UNCHANGED <<cvars, ivars, bvars>>

OrganizeNext == ListNotes \/ VisitNote \/ RenamesRaises \/ OrganizeReturn \/ RunAgain

\* Two runs of organize_notes over every directory of at most MaxTreeFiles
\* files.
OrganizeSpec == OrganizeInit /\ [][OrganizeNext]_vars

(***************************************************************************)
(* Claims about organize_notes.                                            *)
(***************************************************************************)
Range(seq) == {seq[i] : i \in 1..Len(seq)}

\* C6: a second run over the directory moves nothing, the destination of
\* every dated note being its current path, and returns the note paths
\* the first run returned.
C6_SecondRunMovesNothing ==
  (run = 2 /\ opc = "done") =>
    /\ moves = <<>>
    /\ \A i \in 1..Len(notes) :
         /\ noteOut[i] = notes[i]
         /\ LET g == DateGroups(Basename(notes[i]))
                segs == SelectSeq(<<g[1], g[2], g[3], Basename(notes[i])>>,
                                  LAMBDA x : x # <<>>)
            IN Resolve(notes[i]) = Resolve(directory) \o segs
    /\ Range(noteOut) = Range(firstOut)

\* A second run has ended after a first run that moved two notes, one of
\* them with a year only.
C6_Witness ==
  /\ run = 2 /\ opc = "done" /\ Len(firstMoves) >= 2
  /\ \E i \in 1..Len(notes) : DateGroups(Basename(notes[i]))[2] = <<>>

\* Whether a path names the index file of the directory or a file below
\* its lib/.
Artifact(path) ==
  LET r == Resolve(path)
      d == Resolve(directory)
  IN \/ r = d \o <<IndexHtml>>
     \/ Len(r) > Len(d) + 1 /\ SubSeq(r, 1, Len(d) + 1) = d \o <<<<"l", "i", "b">>>>

\* C7: the index file and the files below lib/ are neither among the
\* dated notes nor among the other paths, and are never moved.
C7_ArtifactsUntouched ==
  opc \in {"loop", "done"} =>
    /\ \A i \in 1..Len(notes) : ~Artifact(notes[i])
    /\ \A i \in 1..Len(others) : ~Artifact(others[i])
    /\ \A i \in 1..Len(moves) : ~Artifact(moves[i][1])

(***************************************************************************)
(* index_data and _Group.sort.                                             *)
(***************************************************************************)
\* The value None of an unmatched group; no string of the model equals it.
None == <<"None">>

\* Line 19, 189: the position where _DATE_PATH_REGEXP.search(note) matches:
\* the leftmost four digits followed by a slash; 0 when there is none.
DatePathStart(note) ==
  LET hits == {i \in 1..(Len(note) - 4) :
                 /\ \A k \in i..(i + 3) : IsDigit(note[k])
                 /\ note[i + 4] = "/"}
  IN IF hits = {} THEN 0 ELSE CHOOSE i \in hits : \A j \in hits : i <= j

\* Lines 19, 193: match.groups(): <<year, month, day>>, an optional group
\* that did not take part in the match being None.
DatePathGroups(note) ==
  LET i == DatePathStart(note)
      hasMonth == TwoDigitsAt(note, i + 5)
      p1 == IF hasMonth THEN i + 7 ELSE i + 5
      p2 == IF p1 <= Len(note) /\ note[p1] = "/" THEN p1 + 1 ELSE p1
      hasDay == TwoDigitsAt(note, p2)
  IN <<SubSeq(note, i, i + 3),
       IF hasMonth THEN SubSeq(note, i + 5, i + 6) ELSE None,
       IF hasDay THEN SubSeq(note, p2, p2 + 1) ELSE None>>

IsLeap(y) == y % 4 = 0 /\ (y % 100 # 0 \/ y % 400 = 0)

DaysInMonth(y, m) ==
  IF m = 2 THEN (IF IsLeap(y) THEN 29 ELSE 28)
  ELSE IF m \in {4, 6, 9, 11} THEN 30 ELSE 31

\* Line 194: whether year + month + day raises TypeError (a None operand)
\* or datetime.strptime(..., "%Y%m%d") raises ValueError.
DateRaises(g) ==
  IF g[2] = None \/ g[3] = None THEN TRUE
  ELSE IF ToInt(g[1]) < 1 \/ ToInt(g[2]) \notin 1..12 THEN TRUE
  ELSE ToInt(g[3]) \notin 1..DaysInMonth(ToInt(g[1]), ToInt(g[2]))

\* date.toordinal()
RECURSIVE DaysBeforeMonth(_, _)
DaysBeforeMonth(y, m) ==
  IF m = 1 THEN 0 ELSE DaysBeforeMonth(y, m - 1) + DaysInMonth(y, m - 1)

Ordinal(y, m, d) ==
  (y - 1) * 365 + ((y - 1) \div 4) - ((y - 1) \div 100) + ((y - 1) \div 400)
    + DaysBeforeMonth(y, m) + d

\* The ordinal of the Monday that starts ISO week 1 of year y.
IsoWeek1Monday(y) ==
  LET firstday == Ordinal(y, 1, 1)
      firstweekday == (firstday + 6) % 7
      monday == firstday - firstweekday
  IN IF firstweekday > 3 THEN monday + 7 ELSE monday

\* Line 208: date.isocalendar()[1]
IsoWeek(y, m, d) ==
  LET today == Ordinal(y, m, d)
      start == IsoWeek1Monday(y)
  IN IF today < start THEN ((today - IsoWeek1Monday(y - 1)) \div 7) + 1
     ELSE IF (today - start) \div 7 >= 52 /\ today >= IsoWeek1Monday(y + 1) THEN 1
     ELSE ((today - start) \div 7) + 1

\* Line 202: date.strftime("%B")
MonthNames ==
  <<"January", "February", "March", "April", "May", "June", "July",
    "August", "September", "October", "November", "December">>

\* os.path.relpath(path, start), for paths without ".." components.
Relpath(path, start) ==
  LET sl == Cwd \o Resolve(start)
      pl == Cwd \o Resolve(path)
      common == {i \in 0..Len(sl) : i <= Len(pl) /\ SubSeq(sl, 1, i) = SubSeq(pl, 1, i)}
      i == CHOOSE c \in common : \A e \in common : e <= c
      rel == [k \in 1..(Len(sl) - i) |-> <<".", ".">>] \o SubSeq(pl, i + 1, Len(pl))
  IN IF rel = <<>> THEN <<".">> ELSE JoinAll(rel[1], Tail(rel))

\* Lines 163-173: _Group(key, identifier), without notes or children.
NewGroup(key, identifier) ==
  [key |-> key, identifier |-> identifier, notes |-> <<>>, children |-> <<>>]

OtherNotes == <<"O", "t", "h", "e", "r", " ", "n", "o", "t", "e", "s">>
OtherKey == <<"z", "z", "z", "z">>
OtherId == <<"o", "t", "h", "e", "r">>

\* Line 185: the dictionary groups at the start.
InitialGroups == [k \in {OtherNotes} |-> NewGroup(OtherKey, OtherId)]

\* Lines 187-188: the _Note of a path.
NoteInfo(note, dir) == [name |-> Basename(note), path |-> Relpath(note, dir)]

\* Lines 195-196: groups with the year group created when missing.
WithYear(gs, year) ==
  IF year \in DOMAIN gs THEN gs ELSE DictPut(gs, year, NewGroup(year, year))

\* Lines 203-205, 209-211: a group with info appended to the notes of its
\* child label, the child created when missing.
WithChildNote(g, label, key, identifier, info) ==
  LET cs == IF label \in DOMAIN g.children THEN g.children
            ELSE DictPut(g.children, label, NewGroup(key, identifier))
  IN [g EXCEPT !.children = [cs EXCEPT ![label].notes = Append(@, info)]]

\* Lines 187-212: groups after one iteration of the loop, for a note on
\* which the iteration raises nothing.
GroupsAfter(gs, note, dir, dep) ==
  LET info == NoteInfo(note, dir)
  IN IF DatePathStart(note) = 0
     THEN [gs EXCEPT ![OtherNotes].notes = Append(@, info)]
     ELSE LET g == DatePathGroups(note)
              year == g[1]
              month == g[2]
              day == g[3]
              ys == WithYear(gs, year)
          IN IF dep = "year" \/ month = <<>> \/ (day = <<>> /\ dep = "week")
             THEN [ys EXCEPT ![year].notes = Append(@, info)]
             ELSE IF dep = "month"
             THEN [ys EXCEPT ![year] =
                     WithChildNote(@, MonthNames[ToInt(month)], month, year \o month, info)]
             ELSE IF dep = "week"
             THEN LET week == ToStr(IsoWeek(ToInt(year), ToInt(month), ToInt(day)))
                  IN [ys EXCEPT ![year] =
                        WithChildNote(@, week, ToInt(week), year \o week, info)]
             ELSE ys

\* The order of two sort keys: of numbers for the weeks, of strings
\* otherwise.
KeyLess(a, b, numeric) == IF numeric THEN a < b ELSE StrLess(a, b)

\* sorted(d.items(), key=lambda t: t[1].key): the labels of d by ascending
\* key.
RECURSIVE LabelsAscending(_, _, _)
LabelsAscending(d, labels, numeric) ==
  IF labels = {} THEN <<>>
  ELSE LET l == CHOOSE x \in labels :
                  \A y \in labels \ {x} : ~KeyLess(d[y].key, d[x].key, numeric)
       IN <<l>> \o LabelsAscending(d, labels \ {l}, numeric)

\* sorted(..., reverse=True): the labels of d by descending key.
RECURSIVE LabelsDescending(_, _, _)
LabelsDescending(d, labels, numeric) ==
  IF labels = {} THEN <<>>
  ELSE LET l == CHOOSE x \in labels :
                  \A y \in labels \ {x} : ~KeyLess(d[x].key, d[y].key, numeric)
       IN <<l>> \o LabelsDescending(d, labels \ {l}, numeric)

\* list.sort(key=lambda x: x.name): a stable sort by name.
RECURSIVE SortNotes(_)
SortNotes(ns) ==
  IF ns = <<>> THEN <<>>
  ELSE LET rest == SortNotes(Tail(ns))
           n == Head(ns)
           before == {i \in 0..Len(rest) : \A j \in 1..i : StrLess(rest[j].name, n.name)}
           k == CHOOSE i \in before : \A j \in before : j <= i
       IN SubSeq(rest, 1, k) \o <<n>> \o SubSeq(rest, k + 1, Len(rest))

\* Lines 175-180: _Group.sort: the children become an OrderedDict, here
\* the sequence of its items, and the notes are sorted.  The children
\* themselves are not sorted.
GroupSort(g, numeric) ==
  LET order == LabelsAscending(g.children, DOMAIN g.children, numeric)
  IN [g EXCEPT !.children = [i \in 1..Len(order) |->
                               [label |-> order[i], group |-> g.children[order[i]]]],
               !.notes = SortNotes(g.notes)]

\* Lines 213-216: the OrderedDict returned, as the sequence of its items.
SortedTree(gs, dep) ==
  LET order == LabelsDescending(gs, DOMAIN gs, FALSE)
  IN [i \in 1..Len(order) |->
        [label |-> order[i], group |-> GroupSort(gs[order[i]], dep = "week")]]

\* The paths index_data is called on.
PathB == <<"d", "/", "2", "0", "2", "3", "/", "0", "6", "/", "1", "5", "/", "b", ".", "m", "d">>
PathA == <<"d", "/", "2", "0", "2", "3", "/", "0", "6", "/", "1", "5", "/", "a", ".", "m", "d">>
PathMarch == <<"d", "/", "2", "0", "2", "3", "/", "0", "3", "/", "0", "1", "/", "a", ".", "m", "d">>
PathOld == <<"d", "/", "2", "0", "2", "2", "/", "0", "1", "/", "0", "2", "/", "c", ".", "m", "d">>
PathYearOnly == <<"d", "/", "2", "0", "2", "3", "/", "x", ".", "m", "d">>
PathOther == <<"d", "/", "r", ".", "t", "x", "t">>
PathOther2 == <<"d", "/", "n", "/", "b", ".", "t", "x", "t">>
IndexPaths == {PathB, PathA, PathMarch, PathOld, PathYearOnly, PathOther, PathOther2}

Depths == {"year", "month", "week"}

IndexInit ==
  /\ directory = <<"d">>
  /\ paths \in {S \in SUBSET IndexPaths : Cardinality(S) <= MaxNotes}
  /\ depth \in Depths
  /\ pathsTodo = paths
  /\ groups = InitialGroups
  /\ tree = <<>>
  /\ ipc = "loop"
  /\ files = <<>> /\ markdownExt = <<>> /\ out = <<>> /\ mdTodo = <<>> /\ created = {}
  /\ procs = <<>> /\ running = EmptyDict /\ WaitIdle /\ cpc = "idle"
  /\ OrganizeIdle /\ BuildIdle

\* Lines 186-212: one iteration of the loop, on any note not yet visited.
IndexNote ==
  /\ ipc = "loop"
  /\ \E note \in pathsTodo :
       /\ DatePathStart(note) # 0 => ~DateRaises(DatePathGroups(note))
       /\ groups' = GroupsAfter(groups, note, directory, depth)
       /\ pathsTodo' = pathsTodo \ {note}
  /\ UNCHANGED <<paths, depth, tree, ipc>>
  /\ UNCHANGED <<cvars, directory, ovars, bvars>>

\* Line 194: the iteration raises TypeError or ValueError, which ends the
\* call.
IndexRaises ==
  /\ ipc = "loop"
  /\ \E note \in pathsTodo :
       DatePathStart(note) # 0 /\ DateRaises(DatePathGroups(note))
  /\ ipc' = "error"
  /\ UNCHANGED <<paths, depth, pathsTodo, groups, tree>>
  /\ UNCHANGED <<cvars, directory, ovars, bvars>>

\* Lines 213-217: the groups are ordered, each is sorted, and the
\* OrderedDict is returned.
IndexReturn ==
  /\ ipc = "loop" /\ pathsTodo = {}
  /\ tree' = SortedTree(groups, depth)
  /\ ipc' = "done"
  /\ UNCHANGED <<paths, depth, pathsTodo, groups>>
  /\ UNCHANGED <<cvars, directory, ovars, bvars>>

IndexNext == IndexNote \/ IndexRaises \/ IndexReturn

\* index_data on every set of at most MaxNotes paths, at every depth.
IndexSpec == IndexInit /\ [][IndexNext]_vars

(***************************************************************************)
(* Claims about index_data.                                                *)
(***************************************************************************)
\* C4: in the mapping returned, "Other notes" is the last entry and the
\* year groups before it are in strictly descending order of key.
C4_OtherNotesLast ==
  ipc = "done" =>
    /\ tree[Len(tree)].label = OtherNotes
    /\ \A i, j \in 1..(Len(tree) - 1) :
         i < j => StrLess(tree[j].group.key, tree[i].group.key)

\* The number of notes of a returned tree: those of the groups and of
\* their children.
RECURSIVE SumLen(_)
SumLen(seqs) == IF seqs = <<>> THEN 0 ELSE Len(Head(seqs)) + SumLen(Tail(seqs))

ChildNotes(g) == SumLen([k \in 1..Len(g.children) |-> g.children[k].group.notes])

RECURSIVE TreeNotes(_)
TreeNotes(t) ==
  IF t = <<>> THEN 0
  ELSE Len(Head(t).group.notes) + ChildNotes(Head(t).group) + TreeNotes(Tail(t))

\* C5: index_data returns a tree for every set of paths, and the notes of
\* the tree are as many as the paths.
C5_NoPathDropped ==
  /\ ipc # "error"
  /\ ipc = "done" => TreeNotes(tree) = Cardinality(paths)

NamesSorted(ns) == \A i, j \in 1..Len(ns) : i < j => StrLeq(ns[i].name, ns[j].name)

ChildrenSorted(cs) ==
  \A i, j \in 1..Len(cs) :
    i < j => KeyLess(cs[i].group.key, cs[j].group.key, depth = "week")

\* C10: in the tree returned, every group and every child group has its
\* notes in the order of their names and its children in ascending order
\* of key.
C10_EveryGroupSorted ==
  ipc = "done" =>
    \A i \in 1..Len(tree) :
      /\ NamesSorted(tree[i].group.notes)
      /\ ChildrenSorted(tree[i].group.children)
      /\ \A c \in 1..Len(tree[i].group.children) :
           NamesSorted(tree[i].group.children[c].group.notes)

(***************************************************************************)
(* download_libraries and build_index.                                     *)
(***************************************************************************)
\* Lines 20-23, 232: urlparse.urlparse(url)[2] of the urls of _LIBRARY_URLS.
LibraryUrlPaths ==
  <<<<"/", "a", "j", "a", "x", "/", "l", "i", "b", "s", "/", "j", "q", "u", "e", "r", "y", "/", "1", ".", "1", "0", ".", "2", "/", "j", "q", "u", "e", "r", "y", ".", "m", "i", "n", ".", "j", "s">>,
    <<"/", "a", "j", "a", "x", "/", "l", "i", "b", "s", "/", "j", "q", "u", "e", "r", "y", "u", "i", "/", "1", ".", "1", "0", ".", "3", "/", "j", "q", "u", "e", "r", "y", "-", "u", "i", ".", "m", "i", "n", ".", "j", "s">>>>

\* Lines 227, 232-233: the local path of a library.
LibraryOut(dir, urlPath) ==
  Join2(Join2(dir, <<"l", "i", "b">>), Basename(urlPath))

BuildInit ==
  /\ directory = <<"d">>
  /\ paths \in {S \in SUBSET IndexPaths : Cardinality(S) <= MaxBuildNotes}
  /\ depth \in Depths
  /\ pathsTodo = {} /\ groups = <<>> /\ tree = <<>> /\ ipc = "idle"
  /\ templateDir \in BOOLEAN
  /\ loader = "none"
  /\ template \in {"missing", "broken", "good"}
  /\ indexBefore \in {"absent", "old"}
  /\ indexFile = indexBefore
  /\ libDir \in BOOLEAN
  /\ libFiles \in SUBSET {LibraryOut(directory, LibraryUrlPaths[i]) : i \in 1..2}
  /\ libDir = FALSE => libFiles = {}
  /\ libTodo = <<>> /\ libraries = <<>>
  /\ raised = "none"
  /\ bpc = "env"
  /\ files = <<>> /\ markdownExt = <<>> /\ out = <<>> /\ mdTodo = <<>> /\ created = {}
  /\ procs = <<>> /\ running = EmptyDict /\ WaitIdle /\ cpc = "idle"
  /\ OrganizeIdle

\* Lines 245-248: the environment, with the loader of the template.
ResolveEnv ==
  /\ bpc = "env"
  /\ loader' = IF templateDir THEN "FileSystemLoader" ELSE "PackageLoader"
  /\ bpc' = "libdir"
  /\ UNCHANGED <<templateDir, template, indexBefore, indexFile, libDir, libFiles,
                 libTodo, libraries, raised>>
  /\ UNCHANGED <<cvars, directory, ovars, ivars>>

\* Lines 227-230: directory/lib is made when missing.
MakeLibDir ==
  /\ bpc = "libdir"
  /\ libDir' = TRUE
  /\ libTodo' = LibraryUrlPaths
  /\ libraries' = <<>>
  /\ bpc' = "libs"
  /\ UNCHANGED <<templateDir, loader, template, indexBefore, indexFile, libFiles, raised>>
  /\ UNCHANGED <<cvars, directory, ovars, ivars>>

\* Lines 231-236: one iteration of the loop; a missing library is fetched.
FetchLibrary ==
  /\ bpc = "libs" /\ libTodo # <<>>
  /\ LET lib == LibraryOut(directory, Head(libTodo))
     IN /\ libraries' = Append(libraries, lib)
        /\ libFiles' = libFiles \cup {lib}
  /\ libTodo' = Tail(libTodo)
  /\ UNCHANGED <<templateDir, loader, template, indexBefore, indexFile, libDir,
                 raised, bpc>>
  /\ UNCHANGED <<cvars, directory, ovars, ivars>>

\* Line 236: urllib.urlretrieve raises IOError.
FetchRaises ==
  /\ bpc = "libs" /\ libTodo # <<>>
  /\ LET lib == LibraryOut(directory, Head(libTodo))
     IN /\ lib \notin libFiles
        /\ libraries' = Append(libraries, lib)
  /\ raised' = "IOError"
  /\ bpc' = "error"
  /\ UNCHANGED <<templateDir, loader, template, indexBefore, indexFile, libDir,
                 libFiles, libTodo>>
  /\ UNCHANGED <<cvars, directory, ovars, ivars>>

\* Lines 237, 251: download_libraries returns, and index_data is called on
\* set(notes + others).
CallIndexData ==
  /\ bpc = "libs" /\ libTodo = <<>>
  /\ pathsTodo' = paths
  /\ groups' = InitialGroups
  /\ ipc' = "loop"
  /\ bpc' = "index"
  /\ UNCHANGED <<paths, depth, tree>>
  /\ UNCHANGED <<templateDir, loader, template, indexBefore, indexFile, libDir,
                 libFiles, libTodo, libraries, raised>>
  /\ UNCHANGED <<cvars, directory, ovars>>

\* Line 251: the exception of index_data ends build_index.
IndexDataRaises ==
  /\ bpc = "index" /\ ipc = "error"
  /\ raised' = "index_data"
  /\ bpc' = "error"
  /\ UNCHANGED <<templateDir, loader, template, indexBefore, indexFile, libDir,
                 libFiles, libTodo, libraries>>
  /\ UNCHANGED <<cvars, directory, ovars, ivars>>

\* Lines 250-254: env.globals is set and env.get_template finds the
\* template.
GetTemplate ==
  /\ bpc = "index" /\ ipc = "done"
  /\ template # "missing"
  /\ bpc' = "open"
  /\ UNCHANGED <<templateDir, loader, template, indexBefore, indexFile, libDir,
                 libFiles, libTodo, libraries, raised>>
  /\ UNCHANGED <<cvars, directory, ovars, ivars>>

\* Line 254: env.get_template raises TemplateNotFound.
TemplateNotFound ==
  /\ bpc = "index" /\ ipc = "done"
  /\ template = "missing"
  /\ raised' = "TemplateNotFound"
  /\ bpc' = "error"
  /\ UNCHANGED <<templateDir, loader, template, indexBefore, indexFile, libDir,
                 libFiles, libTodo, libraries>>
  /\ UNCHANGED <<cvars, directory, ovars, ivars>>

\* Line 255: open(directory/index.html, "wb") creates or truncates the
\* file.
OpenIndex ==
  /\ bpc = "open"
  /\ indexFile' = "empty"
  /\ bpc' = "render"
  /\ UNCHANGED <<templateDir, loader, template, indexBefore, libDir, libFiles,
                 libTodo, libraries, raised>>
  /\ UNCHANGED <<cvars, directory, ovars, ivars>>

\* Line 256: template.render() returns and its output is printed to the
\* file, which the with statement closes.
RenderIndex ==
  /\ bpc = "render"
  /\ template = "good"
  /\ indexFile' = "rendered"
  /\ bpc' = "done"
  /\ UNCHANGED <<templateDir, loader, template, indexBefore, libDir, libFiles,
                 libTodo, libraries, raised>>
  /\ UNCHANGED <<cvars, directory, ovars, ivars>>

\* Line 256: template.render() raises; the with statement closes the file
\* and the exception ends build_index.
RenderRaises ==
  /\ bpc = "render"
  /\ template = "broken"
  /\ raised' = "TemplateError"
  /\ bpc' = "error"
  /\ UNCHANGED <<templateDir, loader, template, indexBefore, indexFile, libDir,
                 libFiles, libTodo, libraries>>
  /\ UNCHANGED <<cvars, directory, ovars, ivars>>

BuildNext ==
  \/ ResolveEnv
  \/ MakeLibDir
  \/ FetchLibrary
  \/ FetchRaises
  \/ CallIndexData
  \/ IndexNote
  \/ IndexRaises
  \/ IndexReturn
  \/ IndexDataRaises
  \/ GetTemplate
  \/ TemplateNotFound
  \/ OpenIndex
  \/ RenderIndex
  \/ RenderRaises

\* build_index on every set of at most MaxBuildNotes paths, with every
\* state of the template, of the index file and of directory/lib.
BuildSpec == BuildInit /\ [][BuildNext]_vars

(***************************************************************************)
(* Claims about build_index.                                               *)
(***************************************************************************)
\* C8: when build_index fails because the template is missing or because
\* rendering it raises, directory/index.html is as it was before the call.
C8_FailureKeepsIndex ==
  (bpc = "error" /\ raised \in {"TemplateNotFound", "TemplateError"}) =>
    indexFile = indexBefore

============================================================================
